---------------------------- MODULE Spec2Model ----------------------------
(***************************************************************************)
(* cloudsh: cp / mv over local and cloud paths (src/cloudsh/commands),      *)
(* the tail follow engine and the head/tail line window.                    *)
(*                                                                          *)
(* A path is a sequence <<store, segment, ...>>; <<store>> is the root of   *)
(* a local filesystem or of a bucket/container.  The path library           *)
(* (yunpath / cloudpathlib) is an external collaborator: its calls are      *)
(* modelled by their contract, and each may raise.                          *)
(***************************************************************************)
EXTENDS Integers, Sequences, FiniteSets, TLC

VARIABLES
    files,      \* existing files: path -> [data, mtime]
    dirs,       \* existing directories (store roots exist implicitly)
    pending,    \* Azure server-side copies started and not yet finished
    args,       \* the argx Namespace handed to run()
    queue,      \* sources run() has still to process
    stack,      \* pending calls/steps of the current source, innermost first
    status,     \* "idle" | "running" | "ok" | "error" | "crash"
    err,        \* class of the message printed on standard error
    prompts,    \* overwrite prompts issued: <<[path, reply]>>
    files0,     \* files when the command was first invoked
    dirs0,      \* directories when the command was first invoked
    statFault,  \* a stat() of the update check raised
    failed,     \* the step whose library call raised, if any
    runs,       \* invocations of the same command so far
    attempts,   \* destination file -> the copy calls of cp made for it, in order
    args0,      \* the Namespace as run() received it
    \* ByteLineWindow (head / tail)
    wcontent,   \* the content of the file
    wlines,     \* N of the line count
    wchunk,     \* the size of a read
    wmode,      \* "head" | "tail" | "seek" (tail, seeking backward from EOF)
    wpos,       \* bytes read so far
    wscan,      \* the state of the scan
    window,     \* the Window handed to the command, once computed
    \* FollowEngine (tail -f / -F)
    fcontent,   \* watched file -> its content
    fident,     \* watched file -> its identity fingerprint, 0 when absent
    targets,    \* watched file -> its FollowTarget
    out,        \* what the engine has written, in order
    phase,      \* "off" | "start" | "poll" | "sleep" | "done"
    cursor,     \* the file the current pass is at
    retry,      \* retry / -F semantics
    pid,        \* --pid: "none" | "alive" | "dead"
    final,      \* the pass under way is the last one
    exit,       \* how the engine ended
    events,     \* changes made to the watched files and the process so far
    pure,       \* watched file -> only appended to since it was first read
    size0       \* watched file -> its size when it was first read

xvars == <<files, dirs, pending, args, queue, stack, status, err, prompts,
           files0, dirs0, statFault, failed, runs, attempts, args0>>

wvars == <<wcontent, wlines, wchunk, wmode, wpos, wscan, window>>

fvars == <<fcontent, fident, targets, out, phase, cursor, retry, pid, final, exit,
           events, pure, size0>>

vars == <<xvars, wvars, fvars>>

-----------------------------------------------------------------------------
(* Paths and the filesystem                                                 *)

NoPath == <<>>

Name(p) == p[Len(p)]

Parent(p) == IF Len(p) > 1 THEN SubSeq(p, 1, Len(p) - 1) ELSE p

Join(p, n) == Append(p, n)

Store(p) == p[1]

Provider(p) ==
    CASE Store(p) = "local" -> "local"
      [] Store(p) \in {"gsA", "gsB"} -> "gs"
      [] Store(p) = "s3" -> "s3"
      [] Store(p) = "az" -> "az"

IsCloud(p) == Provider(p) # "local"

Under(p, q) == Len(q) > Len(p) /\ SubSeq(q, 1, Len(p)) = p

Ancestors(p) == {SubSeq(p, 1, k) : k \in 1..Len(p)}

IsFile(f, p) == p \in DOMAIN f

IsDir(d, p) == p \in d \/ Len(p) = 1

Exists(f, d, p) == IsFile(f, p) \/ IsDir(d, p)

Children(f, d, p) == {q \in (DOMAIN f) \cup d : Len(q) = Len(p) + 1 /\ Parent(q) = p}

WriteFile(f, p, v) == [q \in (DOMAIN f) \cup {p} |-> IF q = p THEN v ELSE f[q]]

RemoveFile(f, p) == [q \in (DOMAIN f) \ {p} |-> f[q]]

SetMax(S) == CHOOSE m \in S : \A x \in S : x <= m

Now(f) == 1 + SetMax({f[p].mtime : p \in DOMAIN f} \cup {0})

\* mkdir(parents=True, exist_ok=True) raises when a file is in the way
MkdirRaises(f, p) == \E a \in Ancestors(p) : IsFile(f, a)

MkdirParents(d, p) == d \cup {a \in Ancestors(p) : Len(a) > 1}

Orderings(S) ==
    {s \in [1..Cardinality(S) -> S] : \A i, j \in 1..Cardinality(S) : i # j => s[i] # s[j]}

Task(op, src, dst) == [op |-> op, src |-> src, dst |-> dst]

NoTask == Task("", NoPath, NoPath)


-----------------------------------------------------------------------------
(* Inputs                                                                   *)

\* what the user may type at an overwrite prompt, before .lower()
Responses == {"y", "yes", "n", "no", "Y", "NO", "maybe"}

Lower(r) == CASE r = "Y" -> "y" [] r = "NO" -> "no" [] OTHER -> r

\* the typed lines of one prompt: the loop asks again until a valid answer
ResponseSeqs ==
    {<<r>> : r \in {"y", "yes", "n", "no", "Y", "NO"}} \cup {<<"maybe", r>> : r \in {"y", "no"}}

SrcMtimes == {1, 2, 3}

DstMtime == SetMax(SrcMtimes) - 1

\* the (source store, destination store) pairings exercised
Pairings ==
    {<<"local", "local">>, <<"local", "gsA">>, <<"gsA", "local">>, <<"gsA", "gsA">>,
     <<"gsA", "gsB">>, <<"s3", "s3">>, <<"az", "az">>, <<"gsA", "s3">>}

SrcShapes == {"file", "dir", "none"}

\* "dirfile": a directory holding a file named as the source; "dirdir": a
\* directory holding a directory named as the source; "orphan": DEST below a
\* directory that does not exist; "dirtree": below DEST/src a directory named as
\* the source that holds a file named as the source directory's file f1
DstShapes == {"none", "file", "dir", "dirfile", "dirdir", "orphan", "dirtree"}

\* a second source on the command line: not given, an existing file, or missing;
\* with --parents also "mixed", an existing file of another store, and "deep",
\* a single source that is the file f1 inside the source directory
ExtraShapes == {"single", "file", "none"}

ParentsShapes == ExtraShapes \cup {"mixed", "deep"}

SrcRoot(ss) == <<ss, "src">>

DstRoot(ds) == <<ds, "dst">>

Src2Root(ss) == <<ss, "src2">>

\* a store of the other kind than ss: a bucket for local, local for a bucket
OtherStore(ss) == IF ss = "local" THEN "gsA" ELSE "local"

DstPath(ds, shape) == IF shape = "orphan" THEN <<ds, "gone", "dst">> ELSE DstRoot(ds)

Sources(ss, extra) ==
    CASE extra = "single" -> <<SrcRoot(ss)>>
      [] extra = "deep" -> <<Join(SrcRoot(ss), "f1")>>
      [] extra = "mixed" -> <<SrcRoot(ss), Src2Root(OtherStore(ss))>>
      [] OTHER -> <<SrcRoot(ss), Src2Root(ss)>>

FileVal(data, mtime) == [data |-> data, mtime |-> mtime]

SrcFiles(ss, shape, mt) ==
    IF shape = "file" THEN {<<SrcRoot(ss), FileVal("src", mt)>>}
    ELSE IF shape = "dir"
         THEN {<<Join(SrcRoot(ss), "f1"), FileVal("f1", mt)>>,
               <<Join(Join(SrcRoot(ss), "sub"), "f3"), FileVal("f3", mt)>>}
         ELSE {}

SrcDirs(ss, shape) ==
    IF shape = "dir" THEN {SrcRoot(ss), Join(SrcRoot(ss), "sub")} ELSE {}

DstFiles(ds, shape) ==
    IF shape = "file" THEN {<<DstRoot(ds), FileVal("old", DstMtime)>>}
    ELSE IF shape = "dirfile"
         THEN {<<Join(DstRoot(ds), "src"), FileVal("old", DstMtime)>>}
    ELSE IF shape = "dirdir"
         THEN {<<Join(Join(DstRoot(ds), "src"), "keep"), FileVal("keep", DstMtime)>>}
    ELSE IF shape = "dirtree"
         THEN {<<Join(Join(Join(DstRoot(ds), "src"), "src"), "f1"), FileVal("old", DstMtime)>>}
         ELSE {}

DstDirs(ds, shape) ==
    IF shape \in {"dir", "dirfile"} THEN {DstRoot(ds)}
    ELSE IF shape = "dirdir" THEN {DstRoot(ds), Join(DstRoot(ds), "src")}
    ELSE IF shape = "dirtree"
         THEN {DstRoot(ds), Join(DstRoot(ds), "src"), Join(Join(DstRoot(ds), "src"), "src")}
    ELSE {}

ExtraFiles(ss, extra) ==
    IF extra = "file" THEN {<<Src2Root(ss), FileVal("src2", DstMtime)>>}
    ELSE IF extra = "mixed" THEN {<<Src2Root(OtherStore(ss)), FileVal("src2", DstMtime)>>}
    ELSE {}

\* a set of <<path, value>> pairs as a function
AsFiles(pairs) ==
    [p \in {pr[1] : pr \in pairs} |-> (CHOOSE pr \in pairs : pr[1] = p)[2]]

MvFlags ==
    [no_clobber : BOOLEAN, interactive : BOOLEAN, update : {"all", "none", "older"},
     u : BOOLEAN]

MvArgs(ss, ds, fl) ==
    [cmd |-> "mv", SOURCE |-> <<SrcRoot(ss)>>, DEST |-> DstRoot(ds),
     no_clobber |-> fl.no_clobber, interactive |-> fl.interactive,
     update |-> fl.update, u |-> fl.u, recursive |-> FALSE, force |-> FALSE,
     preserve |-> FALSE, parents |-> FALSE, target_directory |-> NoPath,
     no_target_directory |-> FALSE]

CpFlags ==
    [no_clobber : BOOLEAN, interactive : BOOLEAN, recursive : BOOLEAN, force : BOOLEAN,
     preserve : BOOLEAN]

CpArgs(ss, ds, fl) ==
    [cmd |-> "cp", SOURCE |-> <<SrcRoot(ss)>>, DEST |-> DstRoot(ds),
     no_clobber |-> fl.no_clobber, interactive |-> fl.interactive,
     update |-> "all", u |-> FALSE, recursive |-> fl.recursive, force |-> fl.force,
     preserve |-> fl.preserve, parents |-> FALSE, target_directory |-> NoPath,
     no_target_directory |-> FALSE]

\* the flags --parents is exercised with
ParentsFlags ==
    {g \in CpFlags : ~g.no_clobber /\ ~g.interactive /\ ~g.force /\ ~g.preserve}

CpParentsArgs(ss, ds, fl) == [CpArgs(ss, ds, fl) EXCEPT !.parents = TRUE]

-----------------------------------------------------------------------------
(* Results of a step                                                        *)

Cur ==
    [files |-> files, dirs |-> dirs, pending |-> pending, args |-> args,
     queue |-> queue, stack |-> stack, status |-> status, err |-> err,
     prompts |-> prompts, statFault |-> statFault, failed |-> failed,
     attempts |-> attempts]

Apply(r) ==
    /\ files' = r.files
    /\ dirs' = r.dirs
    /\ pending' = r.pending
    /\ args' = r.args
    /\ queue' = r.queue
    /\ stack' = r.stack
    /\ status' = r.status
    /\ err' = r.err
    /\ prompts' = r.prompts
    /\ statFault' = r.statFault
    /\ failed' = r.failed
    /\ attempts' = r.attempts
    /\ UNCHANGED <<files0, dirs0, runs, args0, wvars, fvars>>

\* print the message on standard error and sys.exit(1)
Exit1(r, msg) == [r EXCEPT !.status = "error", !.err = msg, !.stack = <<>>, !.queue = <<>>]

Swallowed(r, t, msg) == [r EXCEPT !.stack = Tail(stack), !.failed = t]

\* the library call of step t raised: the handler around it reports and exits
Raised(r, t, msg) == [Exit1(r, msg) EXCEPT !.failed = t]

\* pop the current step and push `tasks` in its place
Continue(r, tasks) == [r EXCEPT !.stack = tasks \o Tail(stack)]

Running(op) == status = "running" /\ stack # <<>> /\ Head(stack).op = op

Mtime(f, p, dm) == IF IsFile(f, p) THEN f[p].mtime ELSE dm

PromptOverwrite(resp) ==
    LET RECURSIVE Ask(_)
        Ask(rs) ==
            IF Lower(Head(rs)) \in {"y", "yes"} THEN [ok |-> TRUE, reply |-> Lower(Head(rs))]
            ELSE IF Lower(Head(rs)) \in {"n", "no"}
                 THEN [ok |-> FALSE, reply |-> Lower(Head(rs))]
                 ELSE Ask(Tail(rs))
    IN Ask(resp)

\* input() is read only by an interactive command
PromptInput == IF args.interactive THEN ResponseSeqs ELSE {<<"y">>}

\* the modify time stat() reports for a path that is not a file
StatInput(p) ==
    IF args.cmd = "mv" /\ (args.u \/ args.update = "older") /\ ~IsFile(files, p)
    THEN SrcMtimes ELSE {DstMtime}

\* whether a stat() of the update check raises
StatFaults == IF args.cmd = "mv" /\ (args.u \/ args.update = "older") THEN BOOLEAN ELSE {FALSE}

-----------------------------------------------------------------------------
(* mv                                                                       *)

\* run(): the checks before the loop over the sources
\* the check of run() on several sources, without the case of a DEST that does not exist
SeveralNeedDirectoryIfPresent(a, d, dest) ==
    /\ Len(a.SOURCE) > 1
    /\ a.target_directory = NoPath
    /\ IsFile(files, dest)

\* run(): several sources need a target directory or a DEST that is a directory
SeveralNeedDirectory(a, d, dest) ==
    Len(a.SOURCE) > 1 /\ ~(a.target_directory # NoPath \/ IsDir(d, dest))

MvRun ==
    /\ status = "idle"
    /\ args.cmd = "mv"
    /\ LET a1 == IF args.u THEN [args EXCEPT !.update = "older"] ELSE args
           td == a1.target_directory # NoPath
           dest == IF td THEN a1.target_directory ELSE a1.DEST
           d1 == IF td /\ ~Exists(files, dirs, dest) THEN MkdirParents(dirs, dest) ELSE dirs
           r == [Cur EXCEPT !.args = a1, !.dirs = d1]
       IN IF td /\ ~Exists(files, dirs, dest) /\ MkdirRaises(files, dest)
          THEN Apply([r EXCEPT !.status = "crash", !.err = "traceback", !.dirs = dirs])
          ELSE IF SeveralNeedDirectory(a1, d1, dest)
               THEN Apply(Exit1(r, "not a directory"))
               ELSE Apply([r EXCEPT !.status = "running", !.queue = a1.SOURCE])

\* run(): one iteration of the loop over the sources
MvSource ==
    /\ status = "running"
    /\ args.cmd = "mv"
    /\ stack = <<>>
    /\ queue # <<>>
    /\ LET src == Head(queue)
           dstp == IF args.target_directory # NoPath THEN args.target_directory ELSE args.DEST
           dst == IF Exists(files, dirs, dstp) /\ IsDir(dirs, dstp) /\ ~args.no_target_directory
                  THEN Join(dstp, Name(src)) ELSE dstp
       IN IF ~Exists(files, dirs, src)
          THEN Apply(Exit1(Cur, "cannot stat"))
          ELSE Apply([Cur EXCEPT !.queue = Tail(queue), !.stack = <<Task("move", src, dst)>>])

NeverOverwriteUpdateOnly(a) == a.update = "none"

NeverOverwriteNoClobberOnly(a) == a.no_clobber

\* --update=none or -n/--no-clobber: never overwrite
NeverOverwrite(a) == a.update = "none" \/ a.no_clobber

\* the destination of a directory's item
MoveItemDst(dst, item) == Join(dst, Name(item))

\* _move_path up to the dispatch on the kinds of the two paths
MovePathResult(t, resp, dm, sm, sf, order) ==
    LET src == t.src
        parent == Parent(t.dst)
        d1 == MkdirParents(dirs, parent)
        dst == IF Exists(files, d1, t.dst) /\ IsDir(d1, t.dst)
               THEN Join(t.dst, Name(src)) ELSE t.dst
        ex == Exists(files, d1, dst)
        srcDir == IsDir(d1, src)
        never == ex /\ NeverOverwrite(args)
        older == ex /\ ~never /\ (args.u \/ args.update = "older")
        notNewer == older /\ ~sf /\ Mtime(files, dst, dm) >= Mtime(files, src, sm)
        asks == ex /\ ~never /\ ~notNewer /\ args.interactive
        answer == PromptOverwrite(resp)
        r0 == [Cur EXCEPT !.dirs = d1,
                          !.statFault = statFault \/ (older /\ sf),
                          !.prompts = IF asks
                                      THEN Append(prompts, [path |-> dst, reply |-> answer.reply])
                                      ELSE prompts]
    IN IF MkdirRaises(files, parent) THEN Raised(Cur, t, "cannot move")
       ELSE IF never \/ notNewer \/ (asks /\ ~answer.ok) THEN Continue(r0, <<>>)
       ELSE IF ex /\ IsDir(d1, dst) /\ ~srcDir
            THEN Exit1(r0, "cannot overwrite directory with non-directory")
       ELSE IF IsCloud(src) /\ IsCloud(dst)
            THEN IF srcDir THEN Continue(r0, <<Task("cdir", src, dst)>>)
                 ELSE Continue([r0 EXCEPT !.files = IF IsFile(files, dst)
                                                    THEN RemoveFile(files, dst) ELSE files],
                               <<Task("c2c", src, dst)>>)
       ELSE IF IsCloud(src) \/ IsCloud(dst)
            THEN IF srcDir
                 THEN IF MkdirRaises(files, dst) THEN Raised(r0, t, "cannot move")
                      ELSE Continue([r0 EXCEPT !.dirs = MkdirParents(d1, dst)],
                                    [i \in 1..Len(order) |->
                                        Task("move", order[i], MoveItemDst(dst, order[i]))]
                                    \o <<Task(IF IsCloud(src) THEN "rmdir" ELSE "rmtree",
                                              src, dst)>>)
                 ELSE Continue(r0, <<Task(IF IsCloud(src) THEN "get" ELSE "put", src, dst)>>)
       ELSE Continue(r0, <<Task("replace", src, dst)>>)

MovePath ==
    /\ Running("move")
    /\ \E resp \in PromptInput, dm \in StatInput(Head(stack).dst),
          sm \in StatInput(Head(stack).src), sf \in StatFaults,
          order \in Orderings(Children(files, dirs, Head(stack).src)) :
          Apply(MovePathResult(Head(stack), resp, dm, sm, sf, order))

\* _move_cloud_dir: create the destination and list the source
MoveCloudDirResult(t, order) ==
    IF MkdirRaises(files, t.dst) THEN Raised(Cur, t, "cannot move")
    ELSE Continue([Cur EXCEPT !.dirs = MkdirParents(dirs, t.dst)],
                  [i \in 1..Len(order) |-> Task("citem", order[i], MoveItemDst(t.dst, order[i]))]
                  \o <<Task("rmdir", t.src, t.dst)>>)

MoveCloudDir ==
    /\ Running("cdir")
    /\ \E order \in Orderings(Children(files, dirs, Head(stack).src)) :
          Apply(MoveCloudDirResult(Head(stack), order))

\* _move_cloud_dir: the loop body for one item
MoveCloudItemResult(t, sf) ==
    LET item == t.src
        dst_item == t.dst
        ex == Exists(files, dirs, dst_item)
        older == ex /\ ~args.no_clobber /\ args.update = "older"
    IN IF IsDir(dirs, item) THEN Continue(Cur, <<Task("cdir", item, dst_item)>>)
       ELSE IF ex /\ args.no_clobber THEN Continue(Cur, <<>>)
       ELSE IF older /\ (sf \/ ~IsFile(files, dst_item))
            THEN Raised([Cur EXCEPT !.statFault = TRUE], t, "cannot move")
       ELSE IF older /\ files[dst_item].mtime >= files[item].mtime THEN Continue(Cur, <<>>)
       ELSE IF ex /\ ~IsFile(files, dst_item) THEN Raised(Cur, t, "cannot move")
       ELSE Continue([Cur EXCEPT !.files = IF ex THEN RemoveFile(files, dst_item) ELSE files],
                     <<Task("c2c", item, dst_item)>>)

MoveCloudItem ==
    /\ Running("citem")
    /\ \E sf \in StatFaults : Apply(MoveCloudItemResult(Head(stack), sf))

\* _cloud_to_cloud_move up to the delete of the source
CloudToCloudMoveResult(t, fail) ==
    LET src == t.src
        dst == t.dst
        copied == WriteFile(files, dst, FileVal(files[src].data, Now(files)))
    IN IF fail \/ ~IsFile(files, src) THEN Raised(Cur, t, "cannot move")
       ELSE IF Provider(src) = "gs" /\ Provider(dst) = "gs"
            THEN IF Store(src) = Store(dst)
                 THEN Continue([Cur EXCEPT !.files = RemoveFile(copied, src)], <<>>)
                 ELSE Continue([Cur EXCEPT !.files = copied], <<Task("del", src, dst)>>)
       ELSE IF Provider(src) = "s3" /\ Provider(dst) = "s3"
            THEN Continue([Cur EXCEPT !.files = copied], <<Task("del", src, dst)>>)
       ELSE IF Provider(src) = "az" /\ Provider(dst) = "az"
            THEN Continue([Cur EXCEPT
                              !.files = WriteFile(files, dst, FileVal("partial", Now(files))),
                              !.pending = pending \cup {[src |-> src, dst |-> dst]}],
                          <<Task("del", src, dst)>>)
       ELSE Continue([Cur EXCEPT !.files = RemoveFile(copied, src)], <<>>)

CloudToCloudMove ==
    /\ Running("c2c")
    /\ \E fail \in BOOLEAN : Apply(CloudToCloudMoveResult(Head(stack), fail))

\* the delete of the source that follows a copy; a server-side copy still
\* reading the deleted blob fails and leaves its destination incomplete
DeleteSourceResult(t, fail) ==
    IF fail \/ ~IsFile(files, t.src) THEN Raised(Cur, t, "cannot move")
    ELSE Continue([Cur EXCEPT !.files = RemoveFile(files, t.src),
                              !.pending = {c \in pending : c.src # t.src}], <<>>)

DeleteSource ==
    /\ Running("del")
    /\ \E fail \in BOOLEAN : Apply(DeleteSourceResult(Head(stack), fail))

\* upload_from rejects the overwrite of a cloud object that is not older
OverwriteNewer(f, src, dst) == IsFile(f, dst) /\ f[dst].mtime >= f[src].mtime

\* src.download_to(dst) / dst.upload_from(src) of mv
MoveTransferResult(t, fail) ==
    IF fail \/ ~IsFile(files, t.src) THEN Raised(Cur, t, "cannot move")
    ELSE IF t.op = "put" /\ OverwriteNewer(files, t.src, t.dst) THEN Raised(Cur, t, "cannot move")
    ELSE Continue([Cur EXCEPT !.files = WriteFile(files, t.dst,
                                                  FileVal(files[t.src].data, Now(files)))],
                  <<Task("del", t.src, t.dst)>>)

MoveTransfer ==
    /\ Running("get") \/ Running("put")
    /\ \E fail \in BOOLEAN : Apply(MoveTransferResult(Head(stack), fail))

\* src.rmdir(): only an empty directory is removed
RmdirResult(t, fail) ==
    IF fail \/ Children(files, dirs, t.src) # {} THEN Raised(Cur, t, "cannot move")
    ELSE Continue([Cur EXCEPT !.dirs = dirs \ {t.src}], <<>>)

Rmdir ==
    /\ Running("rmdir")
    /\ \E fail \in BOOLEAN : Apply(RmdirResult(Head(stack), fail))

\* src.rmtree(): the directory and everything below it
RmtreeResult(t, fail) ==
    IF fail THEN Raised(Cur, t, "cannot move")
    ELSE Continue([Cur EXCEPT
                      !.files = [q \in {p \in DOMAIN files : ~Under(t.src, p)} |-> files[q]],
                      !.dirs = {p \in dirs : p # t.src /\ ~Under(t.src, p)}], <<>>)

Rmtree ==
    /\ Running("rmtree")
    /\ \E fail \in BOOLEAN : Apply(RmtreeResult(Head(stack), fail))

\* the path q below (or equal to) src, carried over to dst
Rebase(src, dst, q) == dst \o SubSeq(q, Len(src) + 1, Len(q))

\* src.replace(dst), local to local: rename of a file or of a whole tree
ReplaceResult(t, fail) ==
    LET src == t.src
        dst == t.dst
        moved == {p \in DOMAIN files : p = src \/ Under(src, p)}
        movedDirs == {p \in dirs : p = src \/ Under(src, p)}
        kept == {p \in DOMAIN files : p \notin moved /\ p # dst}
        target == {Rebase(src, dst, p) : p \in moved}
    IN IF fail THEN Raised(Cur, t, "cannot move")
       ELSE IF IsDir(dirs, src) /\ (IsFile(files, dst) \/ Children(files, dirs, dst) # {})
            THEN Raised(Cur, t, "cannot move")
       ELSE Continue([Cur EXCEPT
               !.files = [q \in kept \cup target |->
                            IF q \in target
                            THEN files[CHOOSE p \in moved : Rebase(src, dst, p) = q]
                            ELSE files[q]],
               !.dirs = (dirs \ movedDirs) \cup {Rebase(src, dst, p) : p \in movedDirs}],
             <<>>)

Replace ==
    /\ Running("replace")
    /\ \E fail \in BOOLEAN : Apply(ReplaceResult(Head(stack), fail))

-----------------------------------------------------------------------------
(* cp                                                                       *)

\* str(src_path).lstrip("/") as path segments below the destination
StrSegments(p) ==
    IF IsCloud(p) THEN <<Provider(p) \o ":", Store(p)>> \o Tail(p) ELSE Tail(p)

\* run(): the checks before the loop over the sources
CpRun ==
    /\ status = "idle"
    /\ args.cmd = "cp"
    /\ LET td == args.target_directory # NoPath
           dest == IF td THEN args.target_directory ELSE args.DEST
           d1 == IF td /\ ~Exists(files, dirs, dest) THEN MkdirParents(dirs, dest) ELSE dirs
           r == [Cur EXCEPT !.dirs = d1]
       IN IF td /\ ~Exists(files, dirs, dest) /\ MkdirRaises(files, dest)
          THEN Apply([Cur EXCEPT !.status = "crash", !.err = "traceback"])
          ELSE IF SeveralNeedDirectory(args, d1, dest)
               THEN Apply(Exit1(r, "target must be a directory"))
               ELSE IF args.parents /\ ~IsDir(d1, dest)
                    THEN Apply(Exit1(r, "with --parents, destination must be a directory"))
                    ELSE Apply([r EXCEPT !.status = "running", !.queue = args.SOURCE])

\* run(): one iteration of the loop over the sources
CpSource ==
    /\ status = "running"
    /\ args.cmd = "cp"
    /\ stack = <<>>
    /\ queue # <<>>
    /\ LET src == Head(queue)
           td == args.target_directory # NoPath
           dest == IF td THEN args.target_directory ELSE args.DEST
           into == IF args.parents THEN dest \o StrSegments(src) ELSE Join(dest, Name(src))
           dst == IF ~td /\ Len(args.SOURCE) = 1 /\ ~args.no_target_directory
                  THEN IF Exists(files, dirs, dest) /\ IsDir(dirs, dest) THEN into ELSE dest
                  ELSE into
       IN IF IsCloud(src) /\ IsCloud(dest) /\ args.parents
          THEN Apply(Exit1(Cur, "cannot preserve directory structure"))
          ELSE Apply([Cur EXCEPT !.queue = Tail(queue), !.stack = <<Task("cpath", src, dst)>>])

\* the destination of a directory's item
CopyItemDst(dst, item) == Join(dst, Name(item))

\* a cp that copies a directory whether or not -r was given
OmitsDirectoryNever(a, srcDir) == FALSE

\* _copy_path: a directory source is omitted unless -r was given
OmitsDirectory(a, srcDir) == srcDir /\ ~a.recursive

\* _copy_path up to the copy of a file
CopyPathResult(t, resp, order) ==
    LET src == t.src
        srcDir == IsDir(dirs, src)
        dst == IF Exists(files, dirs, t.dst) /\ IsDir(dirs, t.dst) /\ ~srcDir
               THEN Join(t.dst, Name(src)) ELSE t.dst
        ex == Exists(files, dirs, dst)
        asks == ex /\ ~args.no_clobber /\ args.interactive
        answer == PromptOverwrite(resp)
        r0 == [Cur EXCEPT !.prompts = IF asks
                                      THEN Append(prompts, [path |-> dst, reply |-> answer.reply])
                                      ELSE prompts]
        r1 == IF ex THEN [r0 EXCEPT !.args = [args EXCEPT !.force = TRUE]] ELSE r0
    IN IF ~Exists(files, dirs, Parent(t.dst)) THEN Exit1(Cur, "cannot create")
       ELSE IF ex /\ args.no_clobber THEN Continue(Cur, <<>>)
       ELSE IF asks /\ ~answer.ok THEN Continue(r0, <<>>)
       ELSE IF ex /\ IsDir(dirs, dst) /\ ~srcDir
            THEN Exit1(r1, "cannot overwrite directory with non-directory")
       ELSE IF srcDir
            THEN IF OmitsDirectory(args, srcDir) THEN Exit1(r1, "-r not specified")
                 ELSE IF MkdirRaises(files, dst) THEN Raised(r1, t, "cannot copy")
                 ELSE Continue([r1 EXCEPT !.dirs = MkdirParents(dirs, dst)],
                               [i \in 1..Len(order) |->
                                   Task("cpath", order[i], CopyItemDst(dst, order[i]))])
       ELSE Continue(r1, <<Task("ccopy", src, dst)>>)

CopyPath ==
    /\ Running("cpath")
    /\ \E resp \in PromptInput, order \in Orderings(Children(files, dirs, Head(stack).src)) :
          Apply(CopyPathResult(Head(stack), resp, order))

\* an exception of the copy: OSError is reported, anything else escapes run()
CopyRaise(r, exc) ==
    IF exc = "OSError" THEN [Exit1(r, "cannot copy") EXCEPT !.failed = Head(stack)]
    ELSE [r EXCEPT !.status = "crash", !.err = "traceback", !.stack = <<>>, !.queue = <<>>,
                   !.failed = Head(stack)]

\* whether the first attempt is rejected with OverwriteNewerCloudError
Rejected(src, dst) ==
    /\ OverwriteNewer(files, src, dst)
    /\ \/ ~IsCloud(src) /\ IsCloud(dst)
       \/ IsCloud(src) /\ IsCloud(dst) /\ Provider(src) # Provider(dst) /\ ~args.force

\* a handler that never retries a rejected copy
RetriesNever(a) == FALSE

\* the handler of OverwriteNewerCloudError retries when args.force is set
Retries(a) == a.force

\* one call of the copy for dst: whether it asked for a forced overwrite, and
\* how it ended ("ok", "newer" for OverwriteNewerCloudError, or the exception)
Attempt(force, result) == [force |-> force, result |-> result]

Attempted(r, dst, calls) ==
    [r EXCEPT !.attempts =
        [p \in DOMAIN attempts \cup {dst} |->
            (IF p \in DOMAIN attempts THEN attempts[p] ELSE <<>>)
            \o (IF p = dst THEN calls ELSE <<>>)]]

\* the copy of one file: the first attempt and, after a rejection, the forced one
CopyFileResult(t, exc, exc2) ==
    LET src == t.src
        dst == t.dst
        azure == Provider(src) = "az" /\ Provider(dst) = "az"
        mt == IF args.preserve /\ ~IsCloud(src) /\ ~IsCloud(dst)
              THEN files[src].mtime ELSE Now(files)
        force1 == IsCloud(src) /\ IsCloud(dst) /\ Provider(src) # Provider(dst) /\ args.force
        first(res) == <<Attempt(force1, res)>>
        both(res) == <<Attempt(force1, "newer"), Attempt(TRUE, res)>>
        done == [Cur EXCEPT
                    !.files = WriteFile(files, dst,
                                        FileVal(IF azure THEN "partial" ELSE files[src].data, mt)),
                    !.pending = IF azure
                                THEN {c \in pending : c.dst # dst} \cup {[src |-> src, dst |-> dst]}
                                ELSE pending]
    IN IF ~IsFile(files, src)
       THEN LET e == IF exc = "none" THEN "OSError" ELSE exc
            IN CopyRaise(Attempted(Cur, dst, first(e)), e)
       ELSE IF exc # "none" THEN CopyRaise(Attempted(Cur, dst, first(exc)), exc)
       ELSE IF Rejected(src, dst)
            THEN IF ~Retries(args)
                 THEN CopyRaise(Attempted(Cur, dst, first("newer")), "OverwriteNewerCloudError")
                 ELSE IF exc2 # "none" THEN CopyRaise(Attempted(Cur, dst, both(exc2)), exc2)
                 ELSE Continue(Attempted(done, dst, both("ok")), <<>>)
       ELSE Continue(Attempted(done, dst, first("ok")), <<>>)

Exceptions == {"none", "OSError", "Other"}

CopyFile ==
    /\ Running("ccopy")
    /\ \E exc \in Exceptions, exc2 \in Exceptions :
          Apply(CopyFileResult(Head(stack), exc, exc2))

-----------------------------------------------------------------------------
(* The storage service and the end of the command                           *)

\* an Azure copy started by start_copy_from_url finishes on the service side
AzureCopyFinish ==
    /\ \E c \in pending :
          /\ IsFile(files, c.src)
          /\ IsFile(files, c.dst)
          /\ files' = WriteFile(files, c.dst, FileVal(files[c.src].data, files[c.dst].mtime))
          /\ pending' = pending \ {c}
    /\ UNCHANGED <<dirs, args, queue, stack, status, err, prompts, files0, dirs0,
                   statFault, failed, runs, attempts, args0, wvars, fvars>>

\* run() returns after the last source
Return ==
    /\ status = "running"
    /\ stack = <<>>
    /\ queue = <<>>
    /\ status' = "ok"
    /\ UNCHANGED <<files, dirs, pending, args, queue, stack, err, prompts, files0, dirs0,
                   statFault, failed, runs, attempts, args0, wvars, fvars>>


MaxRuns == 2

\* the same command, with the same Namespace object, is invoked again
Rerun ==
    /\ status = "ok"
    /\ runs < MaxRuns
    /\ pending = {}
    /\ status' = "idle"
    /\ runs' = runs + 1
    /\ files0' = files
    /\ dirs0' = dirs
    /\ prompts' = <<>>
    /\ statFault' = FALSE
    /\ err' = ""
    /\ failed' = NoTask
    /\ attempts' = <<>>
    /\ args0' = args
    /\ UNCHANGED <<files, dirs, pending, args, queue, stack, wvars, fvars>>

-----------------------------------------------------------------------------
(* The parts of the state a specification leaves alone                      *)

TransferOff ==
    /\ files = <<>>
    /\ dirs = {}
    /\ pending = {}
    /\ args = [cmd |-> ""]
    /\ queue = <<>>
    /\ stack = <<>>
    /\ status = "off"
    /\ err = ""
    /\ prompts = <<>>
    /\ files0 = <<>>
    /\ dirs0 = {}
    /\ statFault = FALSE
    /\ failed = NoTask
    /\ runs = 0
    /\ attempts = <<>>
    /\ args0 = [cmd |-> ""]

WindowOff ==
    /\ wcontent = <<>>
    /\ wlines = 0
    /\ wchunk = 0
    /\ wmode = "off"
    /\ wpos = 0
    /\ wscan = <<>>
    /\ window = <<>>

FollowOff ==
    /\ fcontent = <<>>
    /\ fident = <<>>
    /\ targets = <<>>
    /\ out = <<>>
    /\ phase = "off"
    /\ cursor = 0
    /\ retry = FALSE
    /\ pid = "none"
    /\ final = FALSE
    /\ exit = ""
    /\ events = 0
    /\ pure = <<>>
    /\ size0 = <<>>

-----------------------------------------------------------------------------
(* The cp / mv specification                                                *)

Init ==
    \E pr \in Pairings, ssh \in SrcShapes, dsh \in DstShapes, mt \in SrcMtimes,
       extra \in ParentsShapes :
        /\ files = AsFiles(SrcFiles(pr[1], ssh, mt) \cup DstFiles(pr[2], dsh)
                               \cup ExtraFiles(pr[1], extra))
        /\ dirs = SrcDirs(pr[1], ssh) \cup DstDirs(pr[2], dsh)
        /\ \E a \in IF extra \in ExtraShapes
                     THEN {MvArgs(pr[1], pr[2], fl) : fl \in MvFlags}
                          \cup {CpArgs(pr[1], pr[2], fl) :
                                   fl \in {g \in CpFlags :
                                              g.preserve => pr = <<"local", "local">>}}
                          \cup {CpParentsArgs(pr[1], pr[2], fl) : fl \in ParentsFlags}
                     ELSE {CpParentsArgs(pr[1], pr[2], fl) : fl \in ParentsFlags} :
              args = [a EXCEPT !.SOURCE = Sources(pr[1], extra), !.DEST = DstPath(pr[2], dsh)]
        /\ pending = {}
        /\ queue = <<>>
        /\ stack = <<>>
        /\ status = "idle"
        /\ err = ""
        /\ prompts = <<>>
        /\ files0 = files
        /\ dirs0 = dirs
        /\ statFault = FALSE
        /\ failed = NoTask
        /\ runs = 1
        /\ attempts = <<>>
        /\ args0 = args
        /\ WindowOff
        /\ FollowOff

Next ==
    \/ MvRun
    \/ MvSource
    \/ MovePath
    \/ MoveCloudDir
    \/ MoveCloudItem
    \/ CloudToCloudMove
    \/ DeleteSource
    \/ MoveTransfer
    \/ Rmdir
    \/ Rmtree
    \/ Replace
    \/ CpRun
    \/ CpSource
    \/ CopyPath
    \/ CopyFile
    \/ AzureCopyFinish
    \/ Return
    \/ Rerun

Spec == Init /\ [][Next]_vars

-----------------------------------------------------------------------------
(* ByteLineWindow: the first / last N lines of a file, read in chunks       *)

Terminator == "\n"

Bytes == {"a", Terminator}

\* the byte sequences of at most n bytes
Contents(n) == UNION {[1..k -> Bytes] : k \in 0..n}

Min(a, b) == IF a < b THEN a ELSE b

\* the index of the first record terminator in data, 0 when there is none
TermIndex(data) ==
    IF \E i \in 1..Len(data) : data[i] = Terminator
    THEN CHOOSE i \in 1..Len(data) :
            /\ data[i] = Terminator
            /\ \A j \in 1..(i - 1) : data[j] # Terminator
    ELSE 0

RECURSIVE Flatten(_)
Flatten(records) ==
    IF records = <<>> THEN <<>> ELSE Head(records) \o Flatten(Tail(records))

\* the last n of the records
LastN(records, n) ==
    IF Len(records) <= n THEN records
    ELSE SubSeq(records, Len(records) - n + 1, Len(records))

NoRemainder(data) == <<>>

\* the partial record carried over to the next chunk
Remainder(data) == data

BytesToReadAll(size, n) == size

\* byte count -N: all but the last N bytes, nothing when the file is smaller
BytesToRead(size, n) == IF size - n > 0 THEN size - n ELSE 0

\* "allbut" counts down the bytes still to read
NewScan(mode, content, n) ==
    IF mode = "allbut"
    THEN [records |-> <<>>, remainder |-> <<>>, count |-> BytesToRead(Len(content), n),
          start |-> 0, done |-> BytesToRead(Len(content), n) = 0]
    ELSE [records |-> <<>>, remainder |-> <<>>, count |-> 0,
          start |-> IF n = 0 THEN Len(content) ELSE 0,
          done |-> n = 0]

\* byte count -N: the chunk is emitted up to the bytes still to read
BytesScan(s, chunk) ==
    LET k == Min(Len(chunk), s.count) IN
    [s EXCEPT !.records = Append(@, SubSeq(chunk, 1, k)),
              !.count = @ - k,
              !.done = (s.count - k = 0)]

\* line count, positive N: count terminators forward, stop after N records
RECURSIVE HeadScan(_, _, _)
HeadScan(s, data, n) ==
    IF Len(s.records) >= n THEN [s EXCEPT !.remainder = <<>>, !.done = TRUE]
    ELSE LET k == TermIndex(data) IN
         IF k = 0 THEN [s EXCEPT !.remainder = Remainder(data)]
         ELSE HeadScan([s EXCEPT !.records = Append(@, SubSeq(data, 1, k))],
                       SubSeq(data, k + 1, Len(data)), n)

\* last N lines, reading forward: a sliding window of the last N records
RECURSIVE TailScan(_, _, _)
TailScan(s, data, n) ==
    LET k == TermIndex(data) IN
    IF k = 0 THEN [s EXCEPT !.remainder = Remainder(data)]
    ELSE TailScan([s EXCEPT !.records = LastN(Append(@, SubSeq(data, 1, k)), n)],
                  SubSeq(data, k + 1, Len(data)), n)

\* last N lines, seeking backward from EOF: bytes lo+1..hi are scanned from the
\* end for the Nth-from-last terminator; the one that ends the file is not counted
RECURSIVE BackScan(_, _, _, _, _)
BackScan(s, content, lo, hi, n) ==
    IF s.done \/ hi <= lo THEN s
    ELSE IF content[hi] = Terminator /\ hi # Len(content)
         THEN IF s.count + 1 = n
              THEN [s EXCEPT !.count = n, !.start = hi, !.done = TRUE]
              ELSE BackScan([s EXCEPT !.count = @ + 1], content, lo, hi - 1, n)
         ELSE BackScan(s, content, lo, hi - 1, n)

\* one read of at most size bytes
ScanChunk(mode, s, content, pos, size, n) ==
    LET c == Min(size, Len(content) - pos)
        chunk == SubSeq(content, pos + 1, pos + c)
    IN  CASE mode = "head" -> HeadScan(s, s.remainder \o chunk, n)
          [] mode = "tail" -> TailScan(s, s.remainder \o chunk, n)
          [] mode = "seek" ->
                BackScan(s, content, Len(content) - pos - c, Len(content) - pos, n)
          [] mode = "allbut" -> BytesScan(s, chunk)

\* true EOF: trailing data without a terminator counts as a record
ScanEof(mode, s, content, n) ==
    CASE mode = "head" ->
            IF ~s.done /\ s.remainder # <<>> /\ Len(s.records) < n
            THEN Flatten(Append(s.records, s.remainder))
            ELSE Flatten(s.records)
      [] mode = "tail" ->
            IF s.remainder # <<>>
            THEN Flatten(LastN(Append(s.records, s.remainder), n))
            ELSE Flatten(s.records)
      [] mode = "seek" -> SubSeq(content, s.start + 1, Len(content))
      [] mode = "allbut" -> Flatten(s.records)

\* the window of the whole content read as one chunk
WholeWindow(mode, content, n) ==
    LET s0 == NewScan(mode, content, n)
        s1 == IF s0.done \/ content = <<>> THEN s0
              ELSE ScanChunk(mode, s0, content, 0, Len(content), n)
    IN  ScanEof(mode, s1, content, n)

\* last N lines of a content (the initial window of tail)
LastLines(content, n) == WholeWindow("tail", content, n)

MaxLen == 4
MaxLines == 2
MaxChunk == 3

ReadChunk ==
    /\ wmode # "off"
    /\ window = <<>>
    /\ ~wscan.done
    /\ wpos < Len(wcontent)
    /\ wscan' = ScanChunk(wmode, wscan, wcontent, wpos, wchunk, wlines)
    /\ wpos' = wpos + Min(wchunk, Len(wcontent) - wpos)
    /\ UNCHANGED <<wcontent, wlines, wchunk, wmode, window, xvars, fvars>>

Eof ==
    /\ wmode # "off"
    /\ window = <<>>
    /\ wscan.done \/ wpos = Len(wcontent)
    /\ window' = <<[content |-> ScanEof(wmode, wscan, wcontent, wlines)]>>
    /\ UNCHANGED <<wcontent, wlines, wchunk, wmode, wpos, wscan, xvars, fvars>>

WindowInit ==
    /\ wcontent \in Contents(MaxLen)
    /\ wlines \in 0..MaxLines
    /\ wchunk \in 1..MaxChunk
    /\ wmode \in {"head", "tail", "seek", "allbut"}
    /\ wpos = 0
    /\ wscan = NewScan(wmode, wcontent, wlines)
    /\ window = <<>>
    /\ TransferOff
    /\ FollowOff

WindowNext ==
    \/ ReadChunk
    \/ Eof

SpecWindow == WindowInit /\ [][WindowNext]_vars

-----------------------------------------------------------------------------
(* FollowEngine: tail -f / -F by polling                                    *)

Watched == {1, 2}

First == 1

Last == Cardinality(Watched)

MaxSize == 4
MaxEvents == 3
InitialLines == 1

NewTarget ==
    [state |-> "Initial", last_known_size |-> 0, last_known_inode_or_etag |-> 0,
     alive |-> TRUE]

Record(kind, i, from, bytes) == [kind |-> kind, file |-> i, from |-> from, bytes |-> bytes]

Notice(o, kind, i) == Append(o, Record(kind, i, 0, <<>>))

\* an engine that forgets which file it wrote last
LastEmitterForgotten(o) == 0

\* the file of the last output written, 0 before any
LastEmitter(o) ==
    LET E == {k \in 1..Len(o) : o[k].kind \in {"window", "data"}}
    IN  IF E = {} THEN 0 ELSE o[SetMax(E)].file

\* write bytes of file i, behind a header when the output switches to i
Emit(o, kind, i, from, bytes) ==
    IF bytes = <<>> THEN o
    ELSE LET header == IF Cardinality(Watched) > 1 /\ LastEmitter(o) # i
                       THEN <<Record("header", i, 0, <<>>)>>
                       ELSE <<>>
         IN  o \o header \o <<Record(kind, i, from, bytes)>>

\* the bytes [from, to) of a content
Range(content, from, to) == SubSeq(content, from + 1, to)

\* Initial: the file is statted; its window is emitted when it is present
Initial(t, o, i, present, ident, content, from, rt) ==
    IF present
    THEN [target |-> [t EXCEPT !.state = "Polling",
                               !.last_known_size = Len(content),
                               !.last_known_inode_or_etag = ident],
          out |-> Emit(o, "window", i, from, Range(content, from, Len(content)))]
    ELSE IF rt
         THEN [target |-> [t EXCEPT !.state = "Missing"],
               out |-> Notice(o, "inaccessible", i)]
         ELSE [target |-> [t EXCEPT !.alive = FALSE], out |-> Notice(o, "error", i)]

\* a tick that takes a file that is back for the file it had lost
ClassifyBackAsSame(t, present, ident, size) ==
    CASE ~present /\ t.state = "Missing" -> "absent"
      [] ~present /\ t.state # "Missing" -> "disappeared"
      [] OTHER -> IF size > t.last_known_size THEN "grown"
                  ELSE IF size < t.last_known_size THEN "truncated"
                  ELSE "unchanged"

\* what a tick finds for a target
Classify(t, present, ident, size) ==
    CASE ~present /\ t.state = "Missing" -> "absent"
      [] ~present /\ t.state # "Missing" -> "disappeared"
      [] present /\ t.state = "Missing" -> "reappeared"
      [] present /\ t.state # "Missing" /\ ident # t.last_known_inode_or_etag -> "replaced"
      [] OTHER -> IF size > t.last_known_size THEN "grown"
                  ELSE IF size < t.last_known_size THEN "truncated"
                  ELSE "unchanged"

ReplacedAtOffset(t, o, i, ident, content) ==
    [target |-> [t EXCEPT !.last_known_inode_or_etag = ident,
                          !.last_known_size = Len(content)],
     out |-> Emit(o, "data", i, t.last_known_size,
                  SubSeq(content, t.last_known_size + 1, Len(content)))]

\* the file was replaced: the new incarnation is emitted from its start
Replaced(t, o, i, ident, content) ==
    Initial([t EXCEPT !.last_known_size = 0], o, i, TRUE, ident, content, 0, TRUE)

GrownFromStart(t, o, i, content) ==
    [target |-> [t EXCEPT !.last_known_size = Len(content)],
     out |-> Emit(o, "data", i, 0, content)]

\* the file grew: the appended range is emitted
Grown(t, o, i, content) ==
    [target |-> [t EXCEPT !.last_known_size = Len(content)],
     out |-> Emit(o, "data", i, t.last_known_size,
                  Range(content, t.last_known_size, Len(content)))]

\* the file shrank and is the same file: the position is reset
Truncated(t, o, i) ==
    [target |-> [t EXCEPT !.last_known_size = 0], out |-> Notice(o, "truncated", i)]

\* one tick of one target
PollTarget(t, o, i, present, ident, content, rt, fault) ==
    IF ~t.alive THEN [target |-> t, out |-> o]
    ELSE IF fault THEN [target |-> [t EXCEPT !.alive = FALSE], out |-> Notice(o, "error", i)]
    ELSE LET found == Classify(t, present, ident, Len(content)) IN
         CASE found = "absent" -> [target |-> t, out |-> o]
           [] found = "disappeared" -> Initial(t, o, i, FALSE, 0, <<>>, 0, rt)
           [] found = "reappeared" -> Initial(t, o, i, TRUE, ident, content, 0, rt)
           [] found = "replaced" -> Replaced(t, o, i, ident, content)
           [] found = "grown" -> Grown(t, o, i, content)
           [] found = "truncated" -> Truncated(t, o, i)
           [] found = "unchanged" -> [target |-> t, out |-> o]

Following == phase \in {"start", "poll", "sleep"}

\* the engine starts watching the next file
Start ==
    /\ phase = "start"
    /\ LET i == cursor
           c == fcontent[i]
           w == LastLines(c, InitialLines)
           r == Initial(targets[i], out, i, fident[i] # 0, fident[i], c,
                        Len(c) - Len(w), retry)
       IN  /\ targets' = [targets EXCEPT ![i] = r.target]
           /\ out' = r.out
           /\ pure' = [pure EXCEPT ![i] = fident[i] # 0]
           /\ size0' = [size0 EXCEPT ![i] = Len(c)]
    /\ IF cursor = Last
       THEN phase' = "sleep" /\ cursor' = First
       ELSE phase' = phase /\ cursor' = cursor + 1
    /\ UNCHANGED <<fcontent, fident, retry, pid, final, exit, events, xvars, wvars>>

\* the sleep ends: the tick checks the process of --pid and starts a pass
Tick ==
    /\ phase = "sleep"
    /\ phase' = "poll"
    /\ cursor' = First
    /\ final' = (pid = "dead")
    /\ UNCHANGED <<fcontent, fident, targets, out, retry, pid, exit, events, pure, size0,
                   xvars, wvars>>

\* an engine that goes back to sleep after every pass
AfterPassSleeps(last) == "sleep"

\* where a pass ends: the pass that follows the death of the process is the last
AfterPass(last) == IF last THEN "done" ELSE "sleep"

\* the pass polls the next file
Poll ==
    /\ phase = "poll"
    /\ \E fault \in {f \in BOOLEAN : f => targets[cursor].alive /\ events < MaxEvents} :
          LET i == cursor
              r == PollTarget(targets[i], out, i, fident[i] # 0, fident[i], fcontent[i],
                              retry, fault)
          IN  /\ targets' = [targets EXCEPT ![i] = r.target]
              /\ out' = r.out
              /\ events' = IF fault THEN events + 1 ELSE events
    /\ IF cursor = Last
       THEN /\ cursor' = First
            /\ phase' = AfterPass(final)
            /\ exit' = IF final THEN "ok" ELSE exit
       ELSE /\ cursor' = cursor + 1
            /\ UNCHANGED <<phase, exit>>
    /\ UNCHANGED <<fcontent, fident, retry, pid, final, pure, size0, xvars, wvars>>

\* an external interrupt
Cancel ==
    /\ Following
    /\ phase' = "done"
    /\ exit' = "interrupt"
    /\ UNCHANGED <<fcontent, fident, targets, out, cursor, retry, pid, final, events,
                   pure, size0, xvars, wvars>>

\* a fingerprint no file has had
Fresh == Cardinality(Watched) + events + 1

\* a byte no file has held: every change writes bytes of its own
NewByte == <<"b0", "b1", "b2", "b3", "b4", "b5", "b6", "b7">>[events + 1]

\* the contents a file is created or replaced with
NewContents == {<<>>, <<NewByte>>}

\* the contents a watched file starts with
StartContents == {<<>>, <<Terminator, "a">>}

Changed(i) ==
    /\ events' = events + 1
    /\ pure' = [pure EXCEPT ![i] = FALSE]

FileAppend ==
    /\ Following
    /\ events < MaxEvents
    /\ \E i \in Watched :
          /\ fident[i] # 0
          /\ Len(fcontent[i]) < MaxSize
          /\ fcontent' = [fcontent EXCEPT ![i] = Append(@, NewByte)]
    /\ events' = events + 1
    /\ UNCHANGED <<fident, targets, out, phase, cursor, retry, pid, final, exit, pure, size0,
                   xvars, wvars>>

FileTruncate ==
    /\ Following
    /\ events < MaxEvents
    /\ \E i \in Watched :
          /\ fident[i] # 0
          /\ \E k \in 0..(Len(fcontent[i]) - 1) :
                fcontent' = [fcontent EXCEPT ![i] = SubSeq(@, 1, k)]
          /\ Changed(i)
    /\ UNCHANGED <<fident, targets, out, phase, cursor, retry, pid, final, exit, size0,
                   xvars, wvars>>

FileReplace ==
    /\ Following
    /\ events < MaxEvents
    /\ \E i \in Watched, c \in NewContents :
          /\ fident[i] # 0
          /\ fcontent' = [fcontent EXCEPT ![i] = c]
          /\ fident' = [fident EXCEPT ![i] = Fresh]
          /\ Changed(i)
    /\ UNCHANGED <<targets, out, phase, cursor, retry, pid, final, exit, size0, xvars, wvars>>

FileDelete ==
    /\ Following
    /\ events < MaxEvents
    /\ \E i \in Watched :
          /\ fident[i] # 0
          /\ fcontent' = [fcontent EXCEPT ![i] = <<>>]
          /\ fident' = [fident EXCEPT ![i] = 0]
          /\ Changed(i)
    /\ UNCHANGED <<targets, out, phase, cursor, retry, pid, final, exit, size0, xvars, wvars>>

FileCreate ==
    /\ Following
    /\ events < MaxEvents
    /\ \E i \in Watched, c \in NewContents :
          /\ fident[i] = 0
          /\ fcontent' = [fcontent EXCEPT ![i] = c]
          /\ fident' = [fident EXCEPT ![i] = Fresh]
          /\ Changed(i)
    /\ UNCHANGED <<targets, out, phase, cursor, retry, pid, final, exit, size0, xvars, wvars>>

PidExit ==
    /\ Following
    /\ events < MaxEvents
    /\ pid = "alive"
    /\ pid' = "dead"
    /\ events' = events + 1
    /\ UNCHANGED <<fcontent, fident, targets, out, phase, cursor, retry, final, exit, pure,
                   size0, xvars, wvars>>

FollowInit ==
    /\ \E present \in SUBSET Watched :
          /\ fident = [i \in Watched |-> IF i \in present THEN i ELSE 0]
          /\ fcontent \in [Watched -> StartContents]
          /\ \A i \in Watched \ present : fcontent[i] = <<>>
    /\ targets = [i \in Watched |-> NewTarget]
    /\ out = <<>>
    /\ phase = "start"
    /\ cursor = First
    /\ retry \in BOOLEAN
    /\ pid \in {"none", "alive"}
    /\ final = FALSE
    /\ exit = ""
    /\ events = 0
    /\ pure = [i \in Watched |-> FALSE]
    /\ size0 = [i \in Watched |-> 0]
    /\ TransferOff
    /\ WindowOff

FollowNext ==
    \/ Start
    \/ Tick
    \/ Poll
    \/ Cancel
    \/ FileAppend
    \/ FileTruncate
    \/ FileReplace
    \/ FileDelete
    \/ FileCreate
    \/ PidExit

SpecFollow == FollowInit /\ [][FollowNext]_vars

-----------------------------------------------------------------------------
(* Properties of cp and mv                                                  *)

Src == args.SOURCE[1]

Dest == args.DEST

Exists0(p) == Exists(files0, dirs0, p)

\* the files at or below p when the command was invoked
Tree0(p) == {q \in DOMAIN files0 : q = p \/ Under(p, q)}

\* where run() sends the source: DEST, or DEST/<basename> below a directory
Target == IF IsDir(dirs0, Dest) THEN Join(Dest, Name(Src)) ELSE Dest

\* every file of the tree at src is at the same relative path below dst
Landed(src, dst) ==
    \A p \in Tree0(src) :
        /\ IsFile(files, Rebase(src, dst, p))
        /\ files[Rebase(src, dst, p)].data = files0[p].data

\* nothing that existed at invocation has been modified or removed
Untouched == \A p \in DOMAIN files0 : IsFile(files, p) /\ files[p] = files0[p]

\* the command has completed without error
Done == status = "ok"

\* one source on the command line
Single == Len(args.SOURCE) = 1

\* C1: after mv of a file or directory tree to a destination that does not
\* yet exist has completed without error, the source path is gone and every
\* file of the source is at the same relative path below the destination with
\* its original content, for every pairing of source and destination store.
C1_MoveToNewDestination ==
    (args.cmd = "mv" /\ Done /\ Exists0(Src) /\ ~Exists0(Dest))
        => (~Exists(files, dirs, Src) /\ Landed(Src, Dest))

\* C2: after cp (with -r for a directory) to a destination that does not yet
\* exist has completed without error, every source file is at the same relative path below the destination with
\* identical content, and no source entry has been modified or removed.
C2_CopyToNewDestination ==
    (args.cmd = "cp" /\ Done /\ Exists0(Src) /\ ~Exists0(Dest))
        => (Landed(Src, Dest) /\ Untouched /\ dirs0 \subseteq dirs)

\* C3: in every state of mv in which a source file has been deleted, the
\* destination holds that file's complete content.
C3_DeleteOnlyAfterCopy ==
    args.cmd = "mv" =>
        \A p \in Tree0(Src) :
            ~IsFile(files, p) => \E q \in DOMAIN files : files[q].data = files0[p].data

C4Case == Single /\ args.no_clobber /\ Exists0(Src) /\ IsFile(files0, Target)

\* C4: with no_clobber set and the destination file existing, cp and mv
\* change nothing, prompt for nothing and report no error, in the first
\* invocation and in a repeated one.
C4_NoClobberNoOp ==
    C4Case =>
        /\ files = files0
        /\ dirs = dirs0
        /\ pending = {}
        /\ prompts = <<>>
        /\ status \notin {"error", "crash"}
        /\ err = ""

C4_Witness == C4Case /\ args.cmd = "mv" /\ IsFile(files0, Src) /\ status = "ok" /\ runs = 2

C5Case ==
    /\ Single
    /\ args.cmd = "mv"
    /\ args.u \/ args.update = "older"
    /\ ~args.no_clobber
    /\ ~args.interactive
    /\ IsFile(files0, Src)
    /\ IsFile(files0, Target)
    /\ ~statFault
    /\ Done

\* C5: mv in update-if-source-newer mode onto an existing destination file:
\* a source that is not newer (ties included) leaves destination and source
\* as they were; a strictly newer source replaces the destination content and
\* is gone afterwards.
C5_UpdateOlder ==
    C5Case =>
        IF files0[Src].mtime <= files0[Target].mtime
        THEN files = files0
        ELSE /\ IsFile(files, Target)
             /\ files[Target].data = files0[Src].data
             /\ ~IsFile(files, Src)

C6Case ==
    /\ Single
    /\ args.interactive
    /\ ~args.no_clobber
    /\ ~args.u
    /\ args.update = "all"
    /\ IsFile(files0, Src)
    /\ IsFile(files0, Target)

\* C6: with interactive set and the destination file existing, cp and mv
\* change nothing before the prompt is answered; after n/no nothing has changed;
\* after y/yes the destination holds the source content and, for mv, the source
\* is gone.
C6_Interactive ==
    C6Case =>
        /\ prompts = <<>> => files = files0 /\ dirs = dirs0
        /\ Done =>
             /\ Len(prompts) = 1
             /\ prompts[1].path = Target
             /\ prompts[1].reply \in {"n", "no"} => files = files0 /\ dirs = dirs0
             /\ prompts[1].reply \in {"y", "yes"} =>
                  /\ IsFile(files, Target)
                  /\ files[Target].data = files0[Src].data
                  /\ IF args.cmd = "mv" THEN ~IsFile(files, Src)
                     ELSE IsFile(files, Src) /\ files[Src] = files0[Src]

MoveRoot == IF IsDir(dirs0, Target) THEN Join(Target, Name(Src)) ELSE Target

C7Case ==
    /\ args.cmd = "mv"
    /\ failed.op \in {"c2c", "del", "get", "put"}
    /\ Under(Src, failed.src)

\* C7: in a directory move, once the transfer of a child has raised, the
\* command has exited with an error, the source directory still exists, every
\* child is either untouched in the source or present at the destination, and
\* nothing is moved back.
C7_ChildFailureKeepsParent ==
    C7Case =>
        /\ status = "error"
        /\ err # ""
        /\ IsDir(dirs, Src)
        /\ \A p \in Tree0(Src) :
              \/ IsFile(files, p) /\ files[p] = files0[p]
              \/ IsFile(files, Rebase(Src, MoveRoot, p))

C7_Witness ==
    /\ C7Case
    /\ \E p \in Tree0(Src) : ~IsFile(files, p)
    /\ \E p \in Tree0(Src) : IsFile(files, p) /\ ~IsFile(files, Rebase(Src, MoveRoot, p))

-----------------------------------------------------------------------------
(* Properties of the follow engine and of the line window                   *)

\* what has been emitted of file i after its initial window
DataOf(i) == SelectSeq(out, LAMBDA r : r.kind = "data" /\ r.file = i)

RECURSIVE BytesOf(_)
BytesOf(records) ==
    IF records = <<>> THEN <<>> ELSE Head(records).bytes \o BytesOf(Tail(records))

\* the step is a tick's poll of target i that raised no error
Polls(i) ==
    /\ phase = "poll"
    /\ cursor = i
    /\ cursor' # cursor
    /\ targets[i].alive
    /\ targets'[i].alive

Size(i) == Len(fcontent[i])

Position(i) == targets[i].last_known_size

\* the emissions of file i after its window are adjacent ranges that start at
\* the size the file had, and together they are the bytes appended up to the
\* position
AppendedOnce(i) ==
    LET d == DataOf(i) IN
    /\ BytesOf(d) = SubSeq(fcontent[i], size0[i] + 1, Position(i))
    /\ \A k \in 1..Len(d) :
          /\ d[k].bytes # <<>>
          /\ d[k].from = IF k = 1 THEN size0[i] ELSE d[k - 1].from + Len(d[k - 1].bytes)

\* a poll that finds file i grown writes the range [last_known_size, size)
EmitsGrowth(i) ==
    (Polls(i) /\ Size(i) > Position(i)) =>
        /\ out'[Len(out')] = [kind |-> "data", file |-> i, from |-> Position(i),
                              bytes |-> SubSeq(fcontent[i], Position(i) + 1, Size(i))]
        /\ Len(out') \in {Len(out) + 1, Len(out) + 2}
        /\ targets'[i].last_known_size = Size(i)

\* C8: while a followed file is only appended to, every poll that finds it
\* grown emits exactly the range [last_known_size, size), and the emissions
\* after the initial window are the appended bytes, in order, none twice and
\* none dropped.
C8_AppendsEmittedExactly ==
    /\ [](\A i \in Watched : pure[i] => AppendedOnce(i))
    /\ [][\A i \in Watched : pure[i] => EmitsGrowth(i)]_vars

C8_Witness ==
    \E i \in Watched :
        /\ pure[i]
        /\ size0[i] > 0
        /\ Len(DataOf(i)) >= 2
        /\ Position(i) = Size(i)

\* the file of target i is the one last seen and is shorter than the position
Truncation(i) ==
    /\ fident[i] # 0
    /\ fident[i] = targets[i].last_known_inode_or_etag
    /\ Size(i) < Position(i)

\* the file of target i is another one than last seen
Replacement(i) ==
    /\ fident[i] # 0
    /\ fident[i] # targets[i].last_known_inode_or_etag

\* last_known_size decreases only in a poll that finds a truncation or a
\* replacement; the truncation leaves the position at 0, the replacement emits
\* the new content from offset 0
DecreaseIsReset(i) ==
    targets'[i].last_known_size < Position(i) =>
        /\ Polls(i)
        /\ Truncation(i) \/ Replacement(i)
        /\ Truncation(i) => targets'[i].last_known_size = 0 /\ out'[Len(out')].kind = "truncated"
        /\ Replacement(i) =>
              /\ targets'[i].last_known_size = Size(i)
              /\ Size(i) > 0 =>
                    /\ out'[Len(out')].file = i
                    /\ out'[Len(out')].from = 0
                    /\ out'[Len(out')].bytes = fcontent[i]

\* every emission starts at the position
EmitsFromPosition(i) ==
    (Len(out') > Len(out) /\ out'[Len(out')].kind = "data" /\ out'[Len(out')].file = i) =>
        /\ out'[Len(out')].from = Position(i)
        /\ out'[Len(out')].bytes = SubSeq(fcontent[i], Position(i) + 1, Size(i))

\* the first emission of a file after a "file truncated" notice starts at 0
RestartsAtZero ==
    \A k \in 1..Len(out), m \in 1..Len(out) :
        ( /\ out[k].kind = "truncated"
          /\ k < m
          /\ out[m].file = out[k].file
          /\ out[m].kind \in {"data", "window"}
          /\ \A j \in (k + 1)..(m - 1) :
                ~(out[j].file = out[k].file /\ out[j].kind \in {"data", "window"}) )
        => out[m].from = 0

\* C9: last_known_size decreases only on a tick that detects a truncation or
\* a replacement of the file, the detection resets the position to 0, and the
\* next emission starts at offset 0 of the new content.
C9_SizeDecreasesOnlyOnReset ==
    /\ []RestartsAtZero
    /\ [][\A i \in Watched : DecreaseIsReset(i) /\ EmitsFromPosition(i)]_vars

C9_Witness ==
    \E k \in 1..Len(out), m \in 1..Len(out) :
        /\ out[k].kind = "truncated"
        /\ k < m
        /\ out[m].file = out[k].file
        /\ out[m].kind = "data"
        /\ out[m].from = 0
        /\ size0[out[k].file] > 0

\* C10: whatever the size of the reads, the first-N / last-N lines window is
\* the window of the whole content read as one chunk.
C10_WindowIndependentOfChunks ==
    window # <<>> => window[1].content = WholeWindow(wmode, wcontent, wlines)

\* a record that spans two reads and a terminator that ends a read
C10_Witness ==
    /\ window # <<>>
    /\ wmode \in {"head", "tail"}
    /\ wchunk = 2
    /\ wlines = 2
    /\ wcontent = <<"a", "a", "a", Terminator>>
    /\ window[1].content = wcontent

\* C11: byte count -N on a file of size S emits exactly the first S-N bytes
\* when S >= N, and nothing when S < N.
C11_AllButLastBytes ==
    (wmode = "allbut" /\ window # <<>>) =>
        window[1].content = IF Len(wcontent) >= wlines
                            THEN SubSeq(wcontent, 1, Len(wcontent) - wlines)
                            ELSE <<>>

\* a file larger than N, read in more than one chunk
C11_Witness ==
    /\ wmode = "allbut"
    /\ window # <<>>
    /\ wlines = 1
    /\ wchunk = 2
    /\ Len(wcontent) = 4
    /\ Len(window[1].content) = 3

\* a file smaller than N
C11_WitnessTiny ==
    /\ wmode = "allbut"
    /\ window # <<>>
    /\ Len(wcontent) < wlines
    /\ Len(wcontent) > 0
    /\ window[1].content = <<>>

-----------------------------------------------------------------------------
(* Order of the conflict checks, and the fatal errors of cp and mv          *)

\* a file onto an existing file, interactive, no_clobber off, completed
C12Case ==
    /\ Single
    /\ args.interactive
    /\ ~args.no_clobber
    /\ IsFile(files0, Src)
    /\ IsFile(files0, Target)
    /\ Done

\* the update mode of mv leaves the destination alone: --update=none, or
\* --update=older / -u with a source that is not newer
UpdateSkips ==
    /\ args.cmd = "mv"
    /\ \/ args.update = "none"
       \/ /\ args.u \/ args.update = "older"
          /\ ~statFault
          /\ files0[Target].mtime >= files0[Src].mtime

\* C12 as stated: with no_clobber off and interactive on, every run against an
\* existing destination prompts, whatever the update mode and the timestamps.
C12_PromptWhateverUpdateMode == C12Case => prompts # <<>>

\* C12 amended: cp prompts in every such run; mv checks the update mode before
\* the prompt, so it prompts exactly when the update mode does not already
\* leave the destination alone, and a run that is not prompted changes nothing.
C12_PromptAfterUpdateChecks ==
    C12Case =>
        /\ UpdateSkips => prompts = <<>> /\ files = files0 /\ dirs = dirs0
        /\ ~UpdateSkips => Len(prompts) = 1 /\ prompts[1].path = Target

C12_Witness ==
    /\ C12Case
    /\ args.cmd = "mv"
    /\ args.update = "older"
    /\ files0[Target].mtime = files0[Src].mtime
    /\ prompts = <<>>
    /\ IsFile(files, Src)

C13Case == Single /\ Exists0(Src) /\ ~Exists0(Parent(Dest)) /\ status \notin {"idle", "running"}

\* C13: for both copy and move, when the parent directory of the destination
\* does not exist the transfer fails with a no-such-directory error (exit status
\* 1): nothing is transferred, no directory is created, the source is untouched.
C13_MissingParentIsFatal ==
    C13Case =>
        /\ status = "error"
        /\ err = "cannot create"
        /\ files = files0
        /\ dirs = dirs0

\* the same statement for copy alone
C13_CopyMissingParentIsFatal ==
    (args.cmd = "cp" /\ ~args.parents) => C13_MissingParentIsFatal

\* the command has returned, with or without an error
Over == status \notin {"idle", "running"}

\* no conflict option is in effect: an existing destination is overwritten
Overwriting == ~args.no_clobber /\ ~args.interactive /\ ~args.u /\ args.update = "all"

\* no library call of the command has raised
NoFault == failed = NoTask

C14Case ==
    Single /\ Overwriting /\ IsFile(files0, Src) /\ IsDir(dirs0, Target) /\ Over /\ NoFault

\* C14: when the destination computed for a non-directory source (DEST, or
\* DEST/<basename> below an existing directory) already exists as a directory,
\* cp and mv fail with "cannot overwrite directory with non-directory" (exit
\* status 1) and neither that directory's contents nor the source are changed.
C14_DirectoryNotOverwritten ==
    C14Case =>
        /\ status = "error"
        /\ err = "cannot overwrite directory with non-directory"
        /\ files = files0
        /\ dirs = dirs0

\* the files that were created or rewritten since the command was invoked
Written == {p \in DOMAIN files : ~IsFile(files0, p) \/ files[p] # files0[p]}

\* the places below DEST/<basename> where the files of the sources belong
Expected ==
    {Rebase(args.SOURCE[i], Join(Dest, Name(args.SOURCE[i])), q) :
        <<i, q>> \in {x \in (1..Len(args.SOURCE)) \X DOMAIN files0 : x[2] \in Tree0(args.SOURCE[x[1]])}}

\* C15: when DEST is an existing directory, cp and mv transfer each source,
\* file or directory, to exactly DEST/<basename>, never one level deeper,
\* whatever DEST already contains.
C15_ExactlyBelowDest == IsDir(dirs0, Dest) => Written \subseteq Expected

\* the same statement when DEST does not already hold a directory named as the source
C15_ExactlyBelowDestFresh ==
    (~args.parents /\ ~IsDir(dirs0, Join(Dest, Name(Src)))) => C15_ExactlyBelowDest

Second == args.SOURCE[2]

\* the second source, or its place below DEST, is no longer as it was at invocation
Touched2 ==
    \/ IsFile(files0, Second) /\ (~IsFile(files, Second) \/ files[Second] # files0[Second])
    \/ Join(Dest, Name(Second)) \in Written

\* the first source is wholly at DEST/<basename> and, for mv, gone from its place
Completed1 ==
    /\ Exists0(Src)
    /\ Landed(Src, Join(Dest, Name(Src)))
    /\ args.cmd = "mv" => \A p \in Tree0(Src) : ~IsFile(files, p)

\* the command has stopped at the second source
FailedAtSecond ==
    /\ Over
    /\ status # "ok"
    /\ Exists0(Src)
    /\ \/ failed # NoTask /\ failed.src = Second
       \/ failed = NoTask /\ err = "cannot stat"

C16Case == Len(args.SOURCE) = 2 /\ IsDir(dirs0, Dest) /\ Overwriting

\* C16: cp and mv process their sources in command-line order and never roll
\* back: when source k fails every source before k has been completely
\* transferred and stays so, no source after k has been touched, and the exit
\* status is non-zero.
C16_InOrderNoRollback ==
    C16Case =>
        /\ Touched2 => Completed1
        /\ FailedAtSecond => Completed1
        /\ (Over /\ (~Exists0(Src) \/ ~Exists0(Second))) => status \in {"error", "crash"}

\* the stores of the transfer are not both Azure, where a copy is only started
NotAzurePair == ~(Provider(Src) = "az" /\ Provider(Dest) = "az")

\* C16 apart from the transfers that C3 and C15 show to go wrong
C16_InOrderNoRollbackElsewhere ==
    (NotAzurePair /\ ~args.parents /\ ~IsDir(dirs0, Join(Dest, Name(Src))))
        => C16_InOrderNoRollback

C16_Witness ==
    /\ C16Case /\ NotAzurePair /\ args.cmd = "mv"
    /\ FailedAtSecond /\ Completed1 /\ ~Exists0(Second) /\ err = "cannot stat"

C17Case == Len(args.SOURCE) > 1 /\ ~IsDir(dirs0, Dest) /\ status # "idle"

\* C17: cp and mv with more than one source and a DEST that is not an existing
\* directory exit with status 1 and a "not a directory" message before any
\* source is transferred: no source and no destination entry is created,
\* changed or removed.
C17_SeveralSourcesNeedDirectory ==
    C17Case =>
        /\ status = "error"
        /\ err = IF args.cmd = "mv" THEN "not a directory" ELSE "target must be a directory"
        /\ files = files0
        /\ dirs = dirs0

C17_Witness ==
    /\ C17Case /\ args.cmd = "mv" /\ Overwriting
    /\ IsFile(files0, Src) /\ IsFile(files0, Second) /\ ~Exists0(Dest) /\ Exists0(Parent(Dest))
    /\ status = "error"

C17_WitnessCopy ==
    /\ C17Case /\ args.cmd = "cp" /\ Overwriting
    /\ IsFile(files0, Src) /\ IsFile(files0, Second) /\ IsFile(files0, Dest)
    /\ status = "error"

\* one directory source, no recursive flag and no --parents: the command has ended
C18Case == Single /\ ~args.parents /\ IsDir(dirs0, Src) /\ ~args.recursive /\ Over

C18Skipped ==
    /\ Exists0(Target)
    /\ \/ args.no_clobber
       \/ args.interactive /\ prompts # <<>> /\ prompts[1].reply \in {"n", "no"}

C18_WitnessSkipped ==
    C18Case /\ args.cmd = "cp" /\ args.no_clobber /\ IsFile(files0, Target) /\ status = "ok"

C18_WitnessMove ==
    /\ C18Case /\ args.cmd = "mv" /\ Overwriting /\ ~Exists0(Target) /\ Done
    /\ Landed(Src, Target) /\ \A p \in Tree0(Src) : ~IsFile(files, p)

\* the copy or rename call of a cloud-to-cloud mv of one file has raised
C19Case ==
    /\ Single /\ args.cmd = "mv" /\ IsFile(files0, Src)
    /\ IsCloud(Src) /\ IsCloud(Dest)
    /\ failed # NoTask /\ failed.op = "c2c"

\* C19: a single-file transfer is all-or-nothing: when the move/copy step of a
\* cloud-to-cloud mv fails, the command exits non-zero, the source still
\* exists, and a destination file that existed before still has its prior content.
C19_FailedMoveKeepsBoth ==
    C19Case =>
        /\ status = "error"
        /\ IsFile(files, Src) /\ files[Src] = files0[Src]
        /\ IsFile(files0, failed.dst) =>
              IsFile(files, failed.dst) /\ files[failed.dst] = files0[failed.dst]

\* the same statement without the part on the destination
C19_FailedMoveKeepsSource ==
    C19Case => status = "error" /\ IsFile(files, Src) /\ files[Src] = files0[Src]

\* the copy calls made for the destination file d
Calls(d) == attempts[d]

\* the first copy call for d was rejected because the cloud object is newer
RejectedFirst(d) == Calls(d)[1].result = "newer"

\* the command has ended with a non-zero exit status
Fatal == status \in {"error", "crash"}

\* C20 as stated, force being the option given on the command line: a copy
\* rejected as "cloud object is newer" is retried exactly once with the force
\* flag when force is in effect and otherwise is not retried and is fatal; no
\* file is attempted more than twice.
C20_RetryOnlyWithForceOption ==
    \A d \in DOMAIN attempts :
        /\ Len(Calls(d)) <= 2
        /\ RejectedFirst(d) =>
              IF args0.force THEN Len(Calls(d)) = 2 /\ Calls(d)[2].force
              ELSE Len(Calls(d)) = 1 /\ Fatal
        /\ ~RejectedFirst(d) => Len(Calls(d)) = 1

\* C20 amended: a destination that exists has passed the conflict checks, which
\* set args.force, so a copy rejected as "cloud object is newer" is always
\* retried, exactly once and with the force flag, whether or not the force
\* option was given; a failure of the retry is fatal; no file is attempted
\* more than twice.
C20_RejectedCopyAlwaysRetriedOnce ==
    \A d \in DOMAIN attempts :
        /\ Len(Calls(d)) <= 2
        /\ RejectedFirst(d) =>
              /\ args.force
              /\ Len(Calls(d)) = 2
              /\ Calls(d)[2].force
              /\ Calls(d)[2].result # "ok" => Fatal
        /\ ~RejectedFirst(d) => Len(Calls(d)) = 1

C20_Witness ==
    \E d \in DOMAIN attempts :
        /\ args.cmd = "cp" /\ ~args0.force /\ runs = 1
        /\ RejectedFirst(d) /\ Len(Calls(d)) = 2 /\ Calls(d)[2].result = "ok"
        /\ IsFile(files, d) /\ IsFile(files0, d) /\ files[d].data = files0[Src].data

C20_WitnessRetryFails ==
    \E d \in DOMAIN attempts :
        RejectedFirst(d) /\ Len(Calls(d)) = 2 /\ Calls(d)[2].result = "OSError" /\ status = "error"

(* Missing files, headers and --pid in the follow engine *)

\* the step is the engine's visit of target i, at start or in a pass
Visits(i) == phase \in {"start", "poll"} /\ cursor = i /\ cursor' # cursor

\* what has been written about file i
About(o, i) == SelectSeq(o, LAMBDA r : r.file = i)

\* the file of target i is the one last seen
SameFile(i) ==
    /\ targets[i].state = "Polling"
    /\ fident[i] # 0
    /\ fident[i] = targets[i].last_known_inode_or_etag

\* without retry a visit that finds the file absent ends the target, and an
\* ended target is never changed or written about again
MissingIsTerminal(i) ==
    ~retry =>
        /\ (Visits(i) /\ targets[i].alive /\ fident[i] = 0) => ~targets'[i].alive
        /\ ~targets[i].alive => targets'[i] = targets[i] /\ About(out', i) = About(out, i)

\* a pass still emits the growth of a file whose sibling has ended
SiblingsStillPolled(i) ==
    (/\ \E j \in Watched \ {i} : ~targets[j].alive
     /\ Polls(i)
     /\ SameFile(i)
     /\ Size(i) > Position(i)) =>
        out'[Len(out')] = Record("data", i, Position(i),
                                 SubSeq(fcontent[i], Position(i) + 1, Size(i)))

\* with retry an absent file keeps its target alive and waiting, and a visit
\* that finds it back emits the whole content from byte 0
RetryResumesAtZero(i) ==
    retry =>
        /\ (Visits(i) /\ targets[i].alive /\ fident[i] = 0 /\ events' = events) =>
              targets'[i].alive /\ targets'[i].state = "Missing"
        /\ (Polls(i) /\ targets[i].state = "Missing" /\ fident[i] # 0) =>
              /\ targets'[i].state = "Polling"
              /\ targets'[i].last_known_size = Size(i)
              /\ Size(i) > 0 => out'[Len(out')] = Record("window", i, 0, fcontent[i])

\* C21: without retry a followed file that is missing at start or disappears
\* is a terminal per-file error, never polled or emitted from again even when
\* recreated, while the other files keep being polled; with retry the engine
\* keeps polling and emits the content from byte 0 when the file (re)appears.
C21_MissingFile ==
    [][\A i \in Watched :
          MissingIsTerminal(i) /\ SiblingsStillPolled(i) /\ RetryResumesAtZero(i)]_vars

\* a file followed with retry went away and its new content was emitted from 0
C21_Witness ==
    \E i \in Watched, k \in 1..Len(out), m \in 1..Len(out) :
        /\ retry
        /\ size0[i] > 0
        /\ out[k] = Record("inaccessible", i, 0, <<>>)
        /\ k < m
        /\ out[m].kind = "window" /\ out[m].file = i /\ out[m].from = 0
        /\ out[m].bytes = fcontent[i]

\* a file followed without retry was recreated and is ignored, its sibling is not
C21_WitnessTerminal ==
    \E i \in Watched, j \in Watched, k \in 1..Len(out), m \in 1..Len(out) :
        /\ ~retry /\ i # j
        /\ size0[i] > 0 /\ ~targets[i].alive /\ fident[i] # 0 /\ fcontent[i] # <<>>
        /\ out[k] = Record("error", i, 0, <<>>)
        /\ k < m /\ out[m].kind = "data" /\ out[m].file = j
        /\ phase = "sleep"

\* the places of out that hold bytes of a file
Emissions == {k \in 1..Len(out) : out[k].kind \in {"window", "data"}}

\* the file of the emission before place k, 0 when there is none
EmitterBefore(k) ==
    IF \E m \in Emissions : m < k
    THEN out[CHOOSE m \in Emissions : m < k /\ \A n \in Emissions : n < k => n <= m].file
    ELSE 0

\* a header stands directly before an emission exactly when the emission is of
\* another file than the one before, and nowhere else
HeadersOnSwitch ==
    /\ \A k \in Emissions :
          IF EmitterBefore(k) # out[k].file
          THEN k > 1 /\ out[k - 1] = Record("header", out[k].file, 0, <<>>)
          ELSE k > 1 /\ out[k - 1].kind # "header"
    /\ \A k \in 1..Len(out) :
          out[k].kind = "header" =>
              /\ k < Len(out)
              /\ (k + 1) \in Emissions
              /\ out[k + 1].file = out[k].file

\* a pass starts at the first file, goes through the files in the order given
\* and ends after the last
PassInOrder ==
    /\ (phase = "sleep" /\ phase' = "poll") => cursor' = First
    /\ (phase = "poll" /\ cursor' # cursor) =>
          cursor' = IF cursor = Last THEN First ELSE cursor + 1
    /\ (phase = "poll" /\ phase' = "sleep") => cursor = Last
    /\ (phase = "poll" /\ cursor' # cursor) => About(out', cursor') = About(out, cursor')

\* C22: with more than one file followed, the files are polled each tick in
\* the order given, and a header is printed exactly once each time the output
\* switches to another file than the previous emitter: never before
\* consecutive emissions of one file, never omitted on a switch.
C22_HeaderOncePerSwitch == []HeadersOnSwitch /\ [][PassInOrder]_vars

\* two emissions of one file in a row, then a switch to the other file
C22_Witness ==
    \E k \in Emissions, m \in Emissions, n \in Emissions :
        /\ k < m /\ m < n
        /\ out[k].file = out[m].file /\ EmitterBefore(m) = out[k].file
        /\ out[m - 1].kind # "header"
        /\ out[n].file # out[m].file /\ out[n - 1].kind = "header"

\* the tick that finds the process of --pid dead starts the last pass
LastPassStarts ==
    (phase = "sleep" /\ phase' = "poll") => (final' <=> pid = "dead") /\ cursor' = First

\* the last pass polls every file in order, emits the growth it finds, and
\* ends the engine with success when the last file has been polled
LastPassFlushes ==
    /\ (final /\ phase = "poll" /\ cursor' # cursor /\ cursor # Last) =>
          cursor' = cursor + 1 /\ phase' = "poll" /\ final'
    /\ (final /\ phase = "poll" /\ cursor' # cursor /\ cursor = Last) =>
          phase' = "done" /\ exit' = "ok"
    /\ \A i \in Watched :
          (final /\ Polls(i) /\ SameFile(i) /\ Size(i) > Position(i)) =>
              out'[Len(out')] = Record("data", i, Position(i),
                                       SubSeq(fcontent[i], Position(i) + 1, Size(i)))

\* the engine ends with success only at the end of the last pass, and an
\* engine that has ended takes no further step
EndsOnlyAfterLastPass ==
    /\ (exit # "ok" /\ exit' = "ok") => final /\ phase = "poll" /\ cursor = Last
    /\ phase # "done"

\* no sleep and no further pass follows the last pass
NoPassAfterLast ==
    /\ final => phase \in {"poll", "done"} /\ pid = "dead"
    /\ exit = "ok" => phase = "done" /\ final
    /\ phase = "done" => exit \in {"ok", "interrupt"}

\* C23: with --pid, once the process is found not alive the engine performs
\* exactly one more poll pass over all followed files, emitting any pending
\* growth, and then terminates with success; it never keeps polling after
\* that pass and never exits before it.
C23_OneLastPass ==
    /\ []NoPassAfterLast
    /\ [][LastPassStarts /\ LastPassFlushes /\ EndsOnlyAfterLastPass]_vars

\* the engine has ended with success after a last pass that wrote appended bytes
C23_Witness ==
    /\ exit = "ok" /\ phase = "done" /\ pid = "dead"
    /\ out # <<>> /\ out[Len(out)].kind = "data"
    /\ \A i \in Watched : targets[i].alive => Position(i) = Size(i)

(* --parents, fatal errors and directory moves of cp and mv *)

\* the command has ended with the error of --parents between cloud paths
ParentsRefused == status = "error" /\ err = "cannot preserve directory structure"

\* C24: cp with --parents between cloud paths fails fast before any transfer
\* begins: for every list of sources, when the command exits with this error
\* no source of the invocation has been copied and the destination is unchanged.
C24_ParentsFailsBeforeAnyTransfer == ParentsRefused => files = files0 /\ dirs = dirs0

\* the same statement for the invocations whose first source is a cloud path
C24_ParentsFailsAtFirstCloudSource ==
    IsCloud(Src) => C24_ParentsFailsBeforeAnyTransfer


\* the place --parents gives source p below DEST: DEST/p', p' being p with its
\* leading separators stripped
ParentsPlace(p) == Dest \o StrSegments(p)

\* source i of a cp --parents that is not between cloud paths is an existing file
C25Case(i) ==
    /\ args.cmd = "cp" /\ args.parents
    /\ IsDir(dirs0, Dest)
    /\ \A k \in 1..Len(args.SOURCE) : ~(IsCloud(args.SOURCE[k]) /\ IsCloud(Dest))
    /\ IsFile(files0, args.SOURCE[i])
    /\ Over /\ NoFault

\* source i is at its place below DEST with the source's content
AtParentsPlace(i) ==
    /\ IsFile(files, ParentsPlace(args.SOURCE[i]))
    /\ files[ParentsPlace(args.SOURCE[i])].data = files0[args.SOURCE[i]].data

\* C25: cp with --parents into an existing directory D copies each source
\* with path p to D/p', p' being p with its leading separators stripped: a
\* source a/b/f ends up at D/a/b/f holding the source's content.
C25_ParentsKeepsFullPath ==
    \A i \in 1..Len(args.SOURCE) : C25Case(i) => AtParentsPlace(i)

\* the same statement for the sources whose directory below D exists already
\* and whose place below D is not a directory
C25_ParentsKeepsFullPathBelowExisting ==
    \A i \in 1..Len(args.SOURCE) :
        (/\ C25Case(i)
         /\ IsDir(dirs0, Parent(ParentsPlace(args.SOURCE[i])))
         /\ ~IsDir(dirs0, ParentsPlace(args.SOURCE[i]))
         /\ status = "ok") => AtParentsPlace(i)

C25_WitnessBelowExisting ==
    /\ Len(Src) > 2 /\ C25Case(1) /\ AtParentsPlace(1)
    /\ ~IsFile(files0, ParentsPlace(Src))


\* C26: every fatal failure during cp or mv, an exception raised by the
\* storage operation included, ends in a message on standard error and a
\* non-zero exit status; no failure escapes as an uncaught exception.
C26_NoUncaughtException == status # "crash"

\* the same statement for the failures raised inside mv's _move_path
C26_MoveFailuresReported ==
    (args.cmd = "mv" /\ failed # NoTask /\ Over) => status = "error" /\ err # "traceback"

C26_WitnessMove ==
    args.cmd = "mv" /\ failed # NoTask /\ status = "error" /\ err = "cannot move"


\* the file p of the invocation is no longer there with its content
Overwritten(p) == IsFile(files0, p) /\ (~IsFile(files, p) \/ files[p] # files0[p])

\* the user has answered yes to the prompt about p
Approved(p) == \E k \in 1..Len(prompts) : prompts[k].path = p /\ prompts[k].reply \in {"y", "yes"}

\* the files that existed below DEST when the command was invoked
DestFiles0 == {p \in DOMAIN files0 : Under(Dest, p)}

C27Case == args.cmd = "mv" /\ Single /\ IsDir(dirs0, Src)

\* C27: a recursive directory move applies the conflict policy to every
\* child, identically for all pairings of stores: under interactive no child
\* is overwritten without an affirmative prompt for that child, and under
\* update=none or no_clobber no existing child is overwritten.
C27_PolicyForEveryChild ==
    C27Case =>
        \A p \in DestFiles0 :
            Overwritten(p) =>
                /\ ~NeverOverwrite(args)
                /\ args.interactive => Approved(p)

\* the same statement for the pairings that are not cloud to cloud
C27_PolicyForEveryChildThroughMovePath ==
    ~(IsCloud(Src) /\ IsCloud(Dest)) => C27_PolicyForEveryChild

C27_WitnessThroughMovePath ==
    /\ C27Case /\ ~(IsCloud(Src) /\ IsCloud(Dest)) /\ args.interactive
    /\ \E p \in DestFiles0 : Overwritten(p) /\ Approved(p) /\ Len(prompts) = 2


\* the directories a move of the source can resolve to
Resolved == {Dest, Join(Dest, Name(Src)), Join(Join(Dest, Name(Src)), Name(Src))}

\* the conflict policy has skipped the source file p: the file that was at its
\* place below the destination is still there as it was
Skipped(p) ==
    \E d \in Resolved :
        /\ IsFile(files0, Rebase(Src, d, p))
        /\ IsFile(files, Rebase(Src, d, p))
        /\ files[Rebase(Src, d, p)] = files0[Rebase(Src, d, p)]

Survives(p) == IsFile(files, p) /\ files[p] = files0[p]

C28Case == args.cmd = "mv" /\ Single /\ IsDir(dirs0, Src)

\* C28: mv never destroys a source file that the conflict policy skipped
\* during a directory move, local to cloud included: the skipped file is still
\* in the source with its content.
C28_SkippedSourceSurvives ==
    C28Case => \A p \in Tree0(Src) : Skipped(p) => Survives(p)

\* the same statement for the moves that do not go from local to cloud
C28_SkippedSourceSurvivesElsewhere ==
    ~(~IsCloud(Src) /\ IsCloud(Dest)) => C28_SkippedSourceSurvives

\* a cloud-to-local move that has moved one child and skipped the other
C28_WitnessElsewhere ==
    /\ C28Case /\ IsCloud(Src) /\ ~IsCloud(Dest) /\ Over
    /\ \E p, r \in Tree0(Src) : Skipped(p) /\ Survives(p) /\ ~IsFile(files, r)


\* cp is about to copy the file of an entry
Copying == args.cmd = "cp" /\ Running("ccopy")

\* C29: in cp the force setting applied to an entry depends only on the
\* command-line flags and on that entry's own destination: it is set exactly
\* when --force was given or the entry's destination exists, whatever
\* conflicts were resolved for the entries processed before it.
C29_ForceOfEntryOnly ==
    Copying => (args.force <=> (args0.force \/ Exists(files, dirs, Head(stack).dst)))

\* the same statement for a command whose only entry is one file
C29_ForceOfSingleFile == (Single /\ IsFile(files0, Src)) => C29_ForceOfEntryOnly

C29_WitnessSingleFile ==
    /\ Copying /\ Single /\ IsFile(files0, Src)
    /\ args.force /\ ~args0.force /\ IsFile(files, Head(stack).dst)


\* the step is an update check of mv whose stat() raises, the first of the command
StatRaises == args.cmd = "mv" /\ ~statFault /\ statFault'

\* the step goes on to what follows the timestamp check: the prompt of
\* --interactive, the refusal of a non-directory over a directory, or the move
\* (a directory's move begins with the mkdir of the destination, which raises
\* when a file is in its place)
\* the destination _move_path resolves for the step at hand
MoveDst ==
    IF IsDir(dirs, Head(stack).dst)
    THEN Join(Head(stack).dst, Name(Head(stack).src)) ELSE Head(stack).dst

GoesOn ==
    \/ Len(prompts') = Len(prompts) + 1
    \/ status' = "error" /\ err' = "cannot overwrite directory with non-directory"
    \/ status' = "running" /\ stack' # Tail(stack)
    \/ /\ status' = "error" /\ err' = "cannot move"
       /\ IsDir(dirs, Head(stack).src) /\ IsFile(files, MoveDst)

\* a move of one file over an existing file has ended after its update check raised
C30Case ==
    /\ args.cmd = "mv" /\ Single /\ statFault /\ ~args.interactive
    /\ IsFile(files0, Src) /\ IsFile(files0, Target)
    /\ status = "ok"

\* C30: in mv with update=older (or -u) and an existing destination, when the
\* modification time of the source or of the destination cannot be read the
\* timestamp check is skipped: the move goes on to the remaining checks and
\* overwrites the destination, it is neither skipped nor failed.
C30_UnreadableTimeProceeds ==
    [](C30Case => Overwritten(Target) /\ ~IsFile(files, Src)) /\ [][StatRaises => GoesOn]_vars

\* the same statement for the update checks made by _move_path
C30_UnreadableTimeProceedsInMovePath ==
    /\ [](C30Case => Overwritten(Target) /\ ~IsFile(files, Src))
    /\ [][(StatRaises /\ Head(stack).op = "move") => GoesOn]_vars

\* a destination as new as the source has been overwritten after the check raised
C30_WitnessInMovePath ==
    C30Case /\ files0[Target].mtime >= files0[Src].mtime /\ Overwritten(Target) /\ runs = 1

=============================================================================
